---- MODULE Spec2Model ----
(***************************************************************************)
(* cppast: the code generator protocol (include/cppast/code_generator.hpp) *)
(* and the class parser (src/libclang/class_parser.cpp).                   *)
(*                                                                         *)
(* Strings are sequences of one-character strings, so that concatenation,  *)
(* find('<') / erase and "contains a newline" are computed, not assumed.   *)
(***************************************************************************)
EXTENDS Naturals, Sequences, FiniteSets, TLC

VARIABLES
    \* ---- code generator protocol ----
    stack,       \* the live output sentinels, innermost last (automatic storage: LIFO)
    calls,       \* every virtual call that reached the code_generator, in order
    out,         \* the text the backend has written
    issued,      \* every operation requested of an output sentinel, in order
    overridden,  \* the do_write_* members the backend overrides
    visited,     \* the entities an output has been constructed for
    bk,          \* the backend's indentation: level of the current line, the
                 \* level requested, and whether the current line is still empty
    laid,        \* what the backend did for indentation, newlines and text, in order
    \* ---- class parser ----
    pc,          \* "idle" | "building" | "done" | "fault" | "overrun" | "scanned"
    cur,         \* the facts of the class cursor being parsed (<<>> or <<cursor>>)
    builder,     \* the cpp_class::builder (<<>> or <<builder>>)
    semantic_parent, \* the optional cpp_entity_ref (<<>> or <<ref>>)
    scan,        \* the result of the scope scan, where it ran (<<>> or <<result>>)
    yielded,     \* per child cursor visit_children yielded: what it is, and its
                 \* base type where it is a base specifier ("other" where not)
    entity,      \* the entity the last parse returned (<<>> or <<entity>>)
    idx,         \* the cpp_entity_index: identity -> number of the entity (0: no entry)
    finished,    \* per finished entity: number, identity, is_definition, is_template
    budget       \* how many class cursors, and children per class, are still to
                 \* come, and how many operations a render pass requests

genVars == <<stack, calls, out, issued, overridden, visited, bk, laid>>

parseVars == <<pc, cur, builder, semantic_parent, scan, yielded, entity, idx, finished, budget>>

vars == <<genVars, parseVars>>

(***************************************************************************)
(* Bounds                                                                  *)
(***************************************************************************)
\* how many operations are requested of output sentinels in one run
MaxOps == 2
\* how many children visit_children yields for one class cursor
MaxChildren == 3
\* how many class cursors one build pass parses, and how many children each
\* of them has, where the pass parses a sequence of cursors
MaxCursors == 2
MaxSeqChildren == 1
\* how long the token streams of the scope scan are
MaxTokens == 3
\* how many operations are requested where only indentation, newlines and
\* raw token sequences are written
MaxLayoutOps == 3

(***************************************************************************)
(* Text                                                                    *)
(***************************************************************************)
NL == <<"\n">>
SP == <<" ">>

HasNewline(t) == \E i \in 1..Len(t) : t[i] = "\n"

RECURSIVE Concat(_)
Concat(ts) == IF ts = <<>> THEN <<>> ELSE Head(ts) \o Concat(Tail(ts))

\* The texts generate_code hands to the sentinel: none holds a newline
\* ("It is guaranteed that this is the only way a newline will be printed").
Texts(class) ==
    CASE class = "keyword"            -> { <<"i", "n", "t">> }
      [] class = "identifier"         -> { <<"x">> }
      [] class = "reference"          -> { <<"T">> }
      [] class = "punctuation"        -> { <<";">> }
      [] class = "string_literal"     -> { <<"s">> }
      [] class = "int_literal"        -> { <<"0">> }
      [] class = "float_literal"      -> { <<"1", ".">> }
      [] class = "preprocessor_token" -> { <<"#">> }
      [] class = "token_seq"          -> { <<"a", "b">>, <<"x">> }

(***************************************************************************)
(* The finished tree that is rendered                                      *)
(***************************************************************************)
Entities == {"E1", "E2", "E3"}

Children(e) ==
    CASE e = "E1" -> <<"E2">>
      [] e = "E2" -> <<"E3">>
      [] OTHER    -> <<>>

IsContainer(e) == e \in {"E1", "E2"}

Root == "E1"

IsChild(c, p) == \E i \in 1..Len(Children(p)) : Children(p)[i] = c

RECURSIVE IsDescendant(_, _)
IsDescendant(d, a) ==
    \E c \in Entities : IsChild(c, a) /\ (c = d \/ IsDescendant(d, c))

(***************************************************************************)
(* code_generator: the virtual members.  Each yields the calls it causes.  *)
(* e and op are bookkeeping: the entity of the output the call came        *)
(* through and the number of the sentinel operation that caused it.        *)
(***************************************************************************)
synopsis_options == {"exclude", "declaration", "definition"}

WriteMembers ==
    {"do_write_keyword", "do_write_identifier", "do_write_reference",
     "do_write_punctuation", "do_write_str_literal", "do_write_int_literal",
     "do_write_float_literal", "do_write_preprocessor", "do_write_newline",
     "do_write_whitespace"}

Call(fn, e, text, from, ret, op) ==
    [fn |-> fn, e |-> e, text |-> text, from |-> from, ret |-> ret, op |-> op]

\* pure virtual: always the backend's
do_indent(e, op)   == << Call("do_indent", e, <<>>, "output", "-", op) >>
do_unindent(e, op) == << Call("do_unindent", e, <<>>, "output", "-", op) >>
do_write_token_seq(e, tokens, from, op) ==
    << Call("do_write_token_seq", e, tokens, from, "-", op) >>

\* a virtual member with a base class version: the override if there is one
Virtual(fn, e, text, op, base) ==
    << Call(fn, e, text, "output", "-", op) >>
        \o (IF fn \in overridden THEN <<>> ELSE base)

do_write_keyword(e, keyword, op) ==
    Virtual("do_write_keyword", e, keyword, op,
            do_write_token_seq(e, keyword, "do_write_keyword", op))

do_write_identifier(e, identifier, op) ==
    Virtual("do_write_identifier", e, identifier, op,
            do_write_token_seq(e, identifier, "do_write_identifier", op))

\* a reference default that forwards the identity instead of the display name
do_write_reference_id(e, id, name, op) ==
    Virtual("do_write_reference", e, name, op,
            do_write_token_seq(e, id, "do_write_reference", op))

do_write_reference(e, id, name, op) ==
    Virtual("do_write_reference", e, name, op,
            do_write_token_seq(e, name, "do_write_reference", op))

do_write_punctuation(e, punct, op) ==
    Virtual("do_write_punctuation", e, punct, op,
            do_write_token_seq(e, punct, "do_write_punctuation", op))

do_write_str_literal(e, str, op) ==
    Virtual("do_write_str_literal", e, str, op,
            do_write_token_seq(e, str, "do_write_str_literal", op))

do_write_int_literal(e, str, op) ==
    Virtual("do_write_int_literal", e, str, op,
            do_write_token_seq(e, str, "do_write_int_literal", op))

do_write_float_literal(e, str, op) ==
    Virtual("do_write_float_literal", e, str, op,
            do_write_token_seq(e, str, "do_write_float_literal", op))

do_write_preprocessor(e, punct, op) ==
    Virtual("do_write_preprocessor", e, punct, op,
            do_write_token_seq(e, punct, "do_write_preprocessor", op))

do_write_newline(e, op) ==
    Virtual("do_write_newline", e, <<>>, op,
            do_write_token_seq(e, NL, "do_write_newline", op))

\* a whitespace default that forwards the newline text instead of the space
do_write_whitespace_newline(e, op) ==
    Virtual("do_write_whitespace", e, <<>>, op,
            do_write_token_seq(e, NL, "do_write_whitespace", op))

do_write_whitespace(e, op) ==
    Virtual("do_write_whitespace", e, <<>>, op,
            do_write_token_seq(e, SP, "do_write_whitespace", op))

\* What a backend that writes plain text appends for one call it implements.
BackendText(c) ==
    IF c.fn = "do_write_token_seq" THEN c.text
    ELSE IF c.fn \notin overridden THEN <<>>
    ELSE IF c.fn = "do_write_newline" THEN NL
    ELSE IF c.fn = "do_write_whitespace" THEN SP
    ELSE c.text

RECURSIVE Emitted(_)
Emitted(cs) == IF cs = <<>> THEN <<>> ELSE BackendText(Head(cs)) \o Emitted(Tail(cs))

\* What a call is to a backend that keeps an indentation level.
BackendEvent(c) ==
    IF c.fn = "do_indent" THEN "indent"
    ELSE IF c.fn = "do_unindent" THEN "unindent"
    ELSE IF BackendText(c) = NL THEN "newline"
    ELSE IF BackendText(c) # <<>> THEN "text"
    ELSE "none"

Min(a, b) == IF a < b THEN a ELSE b

Dec(n) == IF n > 0 THEN n - 1 ELSE 0

\* The backend's do_indent: "The level change must be applied on the next call
\* to do_write_newline()".
backend_do_indent(st) == [st EXCEPT !.pending = @ + 1]

\* The backend's do_unindent: "The level change must be applied immediately if
\* nothing else has been written on the current line".
backend_do_unindent(st) ==
    [st EXCEPT !.pending = Dec(@),
               !.level = IF st.fresh THEN Min(@, Dec(st.pending)) ELSE @]

\* The backend's newline: the next line starts at the level requested.
backend_newline(st) == [st EXCEPT !.level = st.pending, !.fresh = TRUE]

\* The backend writes text on the current line, at the current level.
backend_text(st) == [st EXCEPT !.fresh = FALSE]

backend_step(st, c) ==
    CASE BackendEvent(c) = "indent"   -> backend_do_indent(st)
      [] BackendEvent(c) = "unindent" -> backend_do_unindent(st)
      [] BackendEvent(c) = "newline"  -> backend_newline(st)
      [] BackendEvent(c) = "text"     -> backend_text(st)
      [] OTHER                        -> st

\* the backend's state after the calls cs, and what it laid out for them
RECURSIVE Layout(_, _, _)
Layout(st, done_, cs) ==
    IF cs = <<>> THEN [bk |-> st, laid |-> done_]
    ELSE LET c  == Head(cs)
             st2 == backend_step(st, c)
         IN  Layout(st2,
                    IF BackendEvent(c) = "none" THEN done_
                    ELSE Append(done_, [kind |-> BackendEvent(c),
                                        level |-> st2.level, op |-> c.op]),
                    Tail(cs))

(***************************************************************************)
(* code_generator::output                                                  *)
(***************************************************************************)
None == "none"

\* output::output: the dispatch callback's result is the backend's choice
output_ctor(e, is_container, ret) ==
    [ent |-> e, e_ |-> IF is_container THEN e ELSE None, options_ |-> ret]

\* a sentinel that never reports exclusion
operator_bool_always(o) == TRUE

operator_bool(o) == o.options_ # "exclude"

\* a sentinel that generates the definition of everything not excluded
generate_definition_unless_excluded(o) == o.options_ # "exclude"

generate_definition(o) == o.options_ = "definition"

\* a destructor that does not look at e_
output_dtor_any_entity(o) ==
    IF o.options_ # "exclude"
    THEN << Call("on_container_end", o.ent, <<>>, "output", "-", 0) >>
    ELSE <<>>

\* output::~output
output_dtor(o) ==
    IF operator_bool(o) /\ o.e_ # None
    THEN << Call("on_container_end", o.e_, <<>>, "output", "-", 0) >>
    ELSE <<>>

\* an indent that writes its newline before it raises the level
indent_newline_first(o, print_newline, op) ==
    IF operator_bool(o)
    THEN (IF print_newline THEN do_write_newline(o.ent, op) ELSE <<>>)
            \o do_indent(o.ent, op)
    ELSE <<>>

indent(o, print_newline, op) ==
    IF operator_bool(o)
    THEN do_indent(o.ent, op)
            \o (IF print_newline THEN do_write_newline(o.ent, op) ELSE <<>>)
    ELSE <<>>

unindent(o, op) == IF operator_bool(o) THEN do_unindent(o.ent, op) ELSE <<>>

shl_keyword(o, k, op) ==
    IF operator_bool(o) THEN do_write_keyword(o.ent, k, op) ELSE <<>>

shl_identifier(o, ident, op) ==
    IF operator_bool(o) THEN do_write_identifier(o.ent, ident, op) ELSE <<>>

shl_reference(o, ref, op) ==
    IF operator_bool(o) THEN do_write_reference(o.ent, ref.id, ref.name, op) ELSE <<>>

shl_punctuation(o, punct, op) ==
    IF operator_bool(o) THEN do_write_punctuation(o.ent, punct, op) ELSE <<>>

shl_string_literal(o, lit, op) ==
    IF operator_bool(o) THEN do_write_str_literal(o.ent, lit, op) ELSE <<>>

shl_int_literal(o, lit, op) ==
    IF operator_bool(o) THEN do_write_int_literal(o.ent, lit, op) ELSE <<>>

shl_float_literal(o, lit, op) ==
    IF operator_bool(o) THEN do_write_float_literal(o.ent, lit, op) ELSE <<>>

shl_preprocessor_token(o, tok, op) ==
    IF operator_bool(o) THEN do_write_preprocessor(o.ent, tok, op) ELSE <<>>

shl_token_seq(o, seq, op) ==
    IF operator_bool(o) THEN do_write_token_seq(o.ent, seq, "output", op) ELSE <<>>

\* a newline write that calls do_write_newline twice
shl_newl_twice(o, op) ==
    IF operator_bool(o)
    THEN do_write_newline(o.ent, op) \o do_write_newline(o.ent, op)
    ELSE <<>>

shl_newl(o, op) ==
    IF operator_bool(o) THEN do_write_newline(o.ent, op) ELSE <<>>

shl_whitespace(o, op) ==
    IF operator_bool(o) THEN do_write_whitespace(o.ent, op) ELSE <<>>

(***************************************************************************)
(* The render pass                                                         *)
(***************************************************************************)
Top == stack[Len(stack)]

NextOp == Len(issued) + 1

\* an operation requested of the innermost output, and the calls it caused
Issue(name, text, cs) ==
    /\ issued' = Append(issued, [op |-> name, text |-> text, via |-> Top.ent])
    /\ calls' = calls \o cs
    /\ out' = out \o Emitted(cs)
    /\ bk' = Layout(bk, laid, cs).bk
    /\ laid' = Layout(bk, laid, cs).laid
    /\ UNCHANGED <<stack, overridden, visited, parseVars>>

\* generate_code has written the newline that ends the top-level entity
TrailingWritten == \E i \in 1..Len(issued) : issued[i].op = "trailing_newl"

CanIssue == stack # <<>> /\ Len(issued) < budget.ops /\ ~TrailingWritten

\* the first child of e no output has been constructed for yet
Unvisited(e) == SelectSeq(Children(e), LAMBDA c : c \notin visited)

Construct(e) ==
    \E ret \in synopsis_options :
        /\ stack' = Append(stack, output_ctor(e, IsContainer(e), ret))
        /\ calls' = Append(calls,
                Call(IF IsContainer(e) THEN "on_container_begin" ELSE "on_leaf",
                     e, <<>>, "output", ret, 0))
        /\ visited' = visited \cup {e}
        /\ UNCHANGED <<out, issued, overridden, bk, laid, parseVars>>

\* generate_code(generator, e): renders the top-level entity
GenerateCode ==
    /\ stack = <<>>
    /\ Root \notin visited
    /\ Construct(Root)

\* a generate function renders the next child of the entity it is rendering;
\* it does so only where the entity's definition is generated
RenderChild ==
    /\ stack # <<>>
    /\ operator_bool(Top)
    /\ generate_definition(Top)
    /\ Unvisited(Top.ent) # <<>>
    /\ Construct(Head(Unvisited(Top.ent)))

\* generate_code ends the output of the top-level entity with a newline
\* ("a newline after each entity"); the write members are private to the
\* generator, so the newline goes through the entity's output
TrailingNewline ==
    /\ Len(stack) = 1
    /\ operator_bool(Top)
    /\ generate_definition(Top) => Unvisited(Top.ent) = <<>>
    /\ ~TrailingWritten
    /\ Issue("trailing_newl", NL, shl_newl(Top, NextOp))

\* the generate function returns: the innermost output goes out of scope
Destroy ==
    /\ stack # <<>>
    /\ generate_definition(Top) => Unvisited(Top.ent) = <<>>
    /\ (Len(stack) = 1 /\ operator_bool(Top)) => TrailingWritten
    /\ stack' = SubSeq(stack, 1, Len(stack) - 1)
    /\ calls' = calls \o output_dtor(Top)
    /\ UNCHANGED <<out, issued, overridden, visited, bk, laid, parseVars>>

Indent ==
    /\ CanIssue
    /\ \E print_newline \in BOOLEAN :
          Issue(IF print_newline THEN "indent_newline" ELSE "indent", <<>>,
                indent(Top, print_newline, NextOp))

Unindent == CanIssue /\ Issue("unindent", <<>>, unindent(Top, NextOp))

WriteKeyword ==
    CanIssue /\ \E t \in Texts("keyword") : Issue("keyword", t, shl_keyword(Top, t, NextOp))

WriteIdentifier ==
    CanIssue /\ \E t \in Texts("identifier") : Issue("identifier", t, shl_identifier(Top, t, NextOp))

WriteReference ==
    CanIssue /\ \E t \in Texts("reference") :
        Issue("reference", t, shl_reference(Top, [id |-> <<"#", "3">>, name |-> t], NextOp))

WritePunctuation ==
    CanIssue /\ \E t \in Texts("punctuation") : Issue("punctuation", t, shl_punctuation(Top, t, NextOp))

WriteStringLiteral ==
    CanIssue /\ \E t \in Texts("string_literal") :
        Issue("string_literal", t, shl_string_literal(Top, t, NextOp))

WriteIntLiteral ==
    CanIssue /\ \E t \in Texts("int_literal") : Issue("int_literal", t, shl_int_literal(Top, t, NextOp))

WriteFloatLiteral ==
    CanIssue /\ \E t \in Texts("float_literal") :
        Issue("float_literal", t, shl_float_literal(Top, t, NextOp))

WritePreprocessor ==
    CanIssue /\ \E t \in Texts("preprocessor_token") :
        Issue("preprocessor_token", t, shl_preprocessor_token(Top, t, NextOp))

WriteTokenSeq ==
    CanIssue /\ \E t \in Texts("token_seq") : Issue("token_seq", t, shl_token_seq(Top, t, NextOp))

WriteNewline == CanIssue /\ Issue("newl", NL, shl_newl(Top, NextOp))

WriteWhitespace == CanIssue /\ Issue("whitespace", SP, shl_whitespace(Top, NextOp))

\* no render pass is under way
GenIdle ==
    /\ stack = <<>>
    /\ calls = <<>>
    /\ out = <<>>
    /\ issued = <<>>
    /\ visited = {}
    /\ overridden = {}
    /\ bk = [level |-> 0, pending |-> 0, fresh |-> TRUE]
    /\ laid = <<>>

(***************************************************************************)
(* Tokens and the token stream                                             *)
(***************************************************************************)
tA == <<"A">>
tB == <<"B">>
tC == <<"C">>
tD == <<"D">>
tFoo == <<"F", "o", "o">>
tScope == <<":", ":">>
tLParen == <<"(">>
tRParen == <<")">>
tLBrace == <<"{">>
tLess == <<"<">>
tGreater == <<">">>
tInt == <<"i", "n", "t">>
tClass == <<"c", "l", "a", "s", "s">>
tVirtual == <<"v", "i", "r", "t", "u", "a", "l">>
tPublic == <<"p", "u", "b", "l", "i", "c">>
tProtected == <<"p", "r", "o", "t", "e", "c", "t", "e", "d">>
tPrivate == <<"p", "r", "i", "v", "a", "t", "e">>
tLBracket == <<"[">>
tRBracket == <<"]">>
tDeprecated == <<"d", "e", "p", "r", "e", "c", "a", "t", "e", "d">>

Keywords == {tInt, tClass, tVirtual, tPublic, tProtected, tPrivate}

Letters ==
    {"A", "B", "C", "D", "F", "N", "T", "a", "b", "c", "d", "e", "i", "l",
     "n", "o", "p", "r", "s", "t", "u", "v"}

\* CXToken_Identifier
IsIdentifier(t) == t # <<>> /\ t[1] \in Letters /\ t \notin Keywords

\* detail::token_stream: the tokens and the position of the next one
token_stream(tokens) == [tokens |-> tokens, pos |-> 1]

done(stream) == stream.pos > Len(stream.tokens)

peek(stream) == stream.tokens[stream.pos]

bump(stream) == [stream EXCEPT !.pos = @ + 1]

\* detail::skip_if: consumes the next token if it is str
skip_if(stream, str) ==
    IF ~done(stream) /\ peek(stream) = str
    THEN [ok |-> TRUE, stream |-> bump(stream)]
    ELSE [ok |-> FALSE, stream |-> stream]

\* detail::append_scope: consumes one scope segment, an identifier followed by
\* the scope separator, and appends it to the scope string
append_scope(stream, scope) ==
    IF /\ stream.pos + 1 <= Len(stream.tokens)
       /\ IsIdentifier(peek(stream))
       /\ stream.tokens[stream.pos + 1] = tScope
    THEN [ok |-> TRUE, stream |-> bump(bump(stream)),
          scope |-> IF scope = <<>> THEN peek(stream)
                    ELSE scope \o tScope \o peek(stream)]
    ELSE [ok |-> FALSE, stream |-> stream, scope |-> scope]

\* detail::skip_attribute: consumes a leading attribute sequence [[ ... ]]
RECURSIVE AttributeEnd(_, _)
AttributeEnd(tokens, i) ==
    IF i + 1 > Len(tokens) THEN Len(tokens) + 1
    ELSE IF tokens[i] = tRBracket /\ tokens[i + 1] = tRBracket THEN i + 2
    ELSE AttributeEnd(tokens, i + 1)

skip_attribute(stream) ==
    IF /\ stream.pos + 1 <= Len(stream.tokens)
       /\ peek(stream) = tLBracket
       /\ stream.tokens[stream.pos + 1] = tLBracket
    THEN [stream EXCEPT !.pos = AttributeEnd(stream.tokens, stream.pos + 2)]
    ELSE stream

\* detail::to_string(stream, stream.end()): the rest of the tokens, joined
to_string(stream) ==
    Concat(SubSeq(stream.tokens, stream.pos, Len(stream.tokens)))

\* std::string::find: the first position of ch, 0 for npos
find(str, ch) ==
    IF \E i \in 1..Len(str) : str[i] = ch
    THEN CHOOSE i \in 1..Len(str) : str[i] = ch /\ \A j \in 1..(i - 1) : str[j] # ch
    ELSE 0

\* the cursor's name with its template argument list erased
StrippedName(name) ==
    IF find(name, "<") # 0 THEN SubSeq(name, 1, find(name, "<") - 1) ELSE name

\* the scan loop with the segment tried before the name
RECURSIVE ScanLoop_append_first(_, _, _)
ScanLoop_append_first(stream, name, scope) ==
    IF done(stream)
    THEN [found |-> FALSE, scope |-> scope, pos |-> stream.pos]
    ELSE IF append_scope(stream, scope).ok
    THEN ScanLoop_append_first(append_scope(stream, scope).stream, name,
                               append_scope(stream, scope).scope)
    ELSE IF skip_if(stream, name).ok
    THEN [found |-> TRUE, scope |-> scope, pos |-> skip_if(stream, name).stream.pos]
    ELSE ScanLoop_append_first(bump(stream), name, scope)

\* while (!skip_if(stream, name)) if (!append_scope(stream, scope)) stream.bump();
\* found is FALSE when the loop reaches the end of the stream without a match
RECURSIVE ScanLoop(_, _, _)
ScanLoop(stream, name, scope) ==
    IF done(stream)
    THEN [found |-> FALSE, scope |-> scope, pos |-> stream.pos]
    ELSE IF skip_if(stream, name).ok
    THEN [found |-> TRUE, scope |-> scope, pos |-> skip_if(stream, name).stream.pos]
    ELSE IF append_scope(stream, scope).ok
    THEN ScanLoop(append_scope(stream, scope).stream, name,
                  append_scope(stream, scope).scope)
    ELSE ScanLoop(bump(stream), name, scope)

\* detail::get_entity_id: the identity minted for a cursor
get_entity_id(cursor) == <<"id", cursor>>

\* an out-of-line branch that refers to the cursor itself, whatever the scope
out_of_line_scope_self(c) ==
    LET r == ScanLoop(token_stream(c.tokens), StrippedName(c.name), <<>>)
    IN  [found |-> r.found, scope |-> r.scope, pos |-> r.pos,
         semantic_parent |->
            IF r.found
            THEN << [id |-> get_entity_id(c.usr), name |-> r.scope] >>
            ELSE <<>>]

\* the out-of-line branch: the scan and the reference it yields
out_of_line_scope(c) ==
    LET r == ScanLoop(token_stream(c.tokens), StrippedName(c.name), <<>>)
    IN  [found |-> r.found, scope |-> r.scope, pos |-> r.pos,
         semantic_parent |->
            IF r.found /\ r.scope # <<>>
            THEN << [id |-> get_entity_id(c.sem), name |-> r.scope] >>
            ELSE <<>>]

(***************************************************************************)
(* cpp_class::builder and the cpp_entity_index                             *)
(***************************************************************************)
\* the access level a class of this kind starts with
InitialAccess(kind) == IF kind = "class_t" THEN "cpp_private" ELSE "cpp_public"

\* ops: the member functions called on the builder so far, in order
class_builder(name, kind) ==
    [name |-> name, class_kind |-> kind, access |-> InitialAccess(kind),
     bases |-> <<>>, children |-> <<>>, final |-> FALSE, ops |-> <<>>]

access_specifier(b, access) ==
    [b EXCEPT !.access = access, !.ops = Append(@, "access_specifier")]

base_class(b, name, type, access, is_virtual) ==
    [b EXCEPT !.bases = Append(@,
        [name |-> name, type |-> type, access |-> access, is_virtual |-> is_virtual]),
              !.ops = Append(@, "base_class")]

is_final(b) == [b EXCEPT !.final = TRUE, !.ops = Append(@, "is_final")]

add_child(b, child) ==
    [b EXCEPT !.children = Append(@, [name |-> child, access |-> b.access]),
              !.ops = Append(@, "add_child")]

\* the builder after a terminal operation was called on it
Called(b, terminal) == [b EXCEPT !.ops = Append(@, terminal)]

Built(b, n, id, is_definition, children, sp, terminal) ==
    [n |-> n, id |-> id, is_definition |-> is_definition, name |-> b.name,
     class_kind |-> b.class_kind, bases |-> b.bases, children |-> children,
     final |-> b.final, semantic_parent |-> sp, terminal |-> terminal]

\* builder.finish(idx, id, semantic_parent): registers the definition
finish_idx(b, n, index, id, sp) ==
    [entity |-> Built(b, n, id, TRUE, b.children, sp, "finish"),
     idx |-> [index EXCEPT ![id] = n], builder |-> Called(b, "finish")]

\* builder.finish(semantic_parent): no registration
finish(b, n, index, id, sp) ==
    [entity |-> Built(b, n, id, TRUE, b.children, sp, "finish"),
     idx |-> index, builder |-> Called(b, "finish")]

\* builder.finish_declaration(idx, id): a forward declaration, entered in the
\* index unless the identity has an entry already
finish_declaration_idx(b, n, index, id) ==
    [entity |-> Built(b, n, id, FALSE, <<>>, <<>>, "finish_declaration"),
     idx |-> IF index[id] = 0 THEN [index EXCEPT ![id] = n] ELSE index,
     builder |-> Called(b, "finish_declaration")]

\* builder.finish_declaration(id): no registration
finish_declaration(b, n, index, id) ==
    [entity |-> Built(b, n, id, FALSE, <<>>, <<>>, "finish_declaration"),
     idx |-> index, builder |-> Called(b, "finish_declaration")]

(***************************************************************************)
(* What the traversal provider supplies                                    *)
(***************************************************************************)
\* kind, template kind, specialized template and name of the class cursors
CursorKinds ==
    { [kind |-> "CXCursor_ClassDecl", template_kind |-> "CXCursor_NoDeclFound",
       specialized |-> FALSE, name |-> tFoo],
      [kind |-> "CXCursor_StructDecl", template_kind |-> "CXCursor_NoDeclFound",
       specialized |-> FALSE, name |-> tFoo],
      [kind |-> "CXCursor_UnionDecl", template_kind |-> "CXCursor_NoDeclFound",
       specialized |-> FALSE, name |-> tFoo],
      [kind |-> "CXCursor_EnumDecl", template_kind |-> "CXCursor_NoDeclFound",
       specialized |-> FALSE, name |-> tFoo],
      [kind |-> "CXCursor_ClassTemplate", template_kind |-> "CXCursor_StructDecl",
       specialized |-> FALSE, name |-> tFoo],
      [kind |-> "CXCursor_ClassTemplatePartialSpecialization",
       template_kind |-> "CXCursor_ClassDecl",
       specialized |-> TRUE, name |-> tFoo \o tLess \o tInt \o tGreater],
      [kind |-> "CXCursor_ClassDecl", template_kind |-> "CXCursor_NoDeclFound",
       specialized |-> TRUE, name |-> tFoo \o tLess \o tInt \o tGreater] }

\* a class template or a template specialization
IsTemplateCursor(k) ==
    k.kind \in {"CXCursor_ClassTemplate", "CXCursor_ClassTemplatePartialSpecialization"}
        \/ k.specialized

\* the identities: A and B name classes, T names a template
Usrs(k) == IF IsTemplateCursor(k) THEN {"T"} ELSE {"A", "B"}

Ids == {get_entity_id(u) : u \in {"A", "B", "T"}}

\* semantic and lexical parent: in-line and out-of-line
Parents == { [sem |-> "TU", lex |-> "TU"], [sem |-> "N", lex |-> "TU"] }

\* the declarator tokens of a class named Foo
ClassTokens ==
    { <<tClass, tFoo, tLBrace>>,
      <<tClass, tA, tScope, tB, tScope, tFoo, tLBrace>> }

ClassCursors ==
    { [usr |-> u, kind |-> k.kind, template_kind |-> k.template_kind,
       specialized |-> k.specialized, name |-> k.name,
       parent_kind |-> pk, sem |-> p.sem, lex |-> p.lex,
       is_definition |-> d, tokens |-> t] :
        u \in {"A", "B", "T"}, k \in CursorKinds,
        pk \in {"CXCursor_FriendDecl", "CXCursor_ClassDecl"},
        p \in Parents, d \in BOOLEAN, t \in ClassTokens }

\* the children of a class cursor
AccessCursors ==
    { [kind |-> "CXCursor_CXXAccessSpecifier", access |-> a] :
        a \in {"CX_CXXPublic", "CX_CXXProtected", "CX_CXXPrivate",
               "CX_CXXInvalidAccessSpecifier"} }

BaseCursors ==
    { [kind |-> "CXCursor_CXXBaseSpecifier", access |-> "CX_CXXPublic",
       is_virtual |-> FALSE, tokens |-> <<tPublic, tB>>, type |-> "B"],
      [kind |-> "CXCursor_CXXBaseSpecifier", access |-> "CX_CXXPrivate",
       is_virtual |-> TRUE, tokens |-> <<tVirtual, tPrivate, tC>>, type |-> "C"],
      [kind |-> "CXCursor_CXXBaseSpecifier", access |-> "CX_CXXPublic",
       is_virtual |-> TRUE, tokens |-> <<tPublic, tVirtual, tD>>, type |-> "D"],
      [kind |-> "CXCursor_CXXBaseSpecifier", access |-> "CX_CXXInvalidAccessSpecifier",
       is_virtual |-> FALSE, tokens |-> <<tA>>, type |-> "A"] }

SkippedKinds ==
    {"CXCursor_TemplateTypeParameter", "CXCursor_NonTypeTemplateParameter",
     "CXCursor_TemplateTemplateParameter", "CXCursor_ParmDecl",
     "CXCursor_UnexposedExpr", "CXCursor_TypeRef", "CXCursor_UnexposedAttr"}

clang_isExpression(kind) == kind = "CXCursor_UnexposedExpr"

clang_isReference(kind) == kind = "CXCursor_TypeRef"

\* a member, and a declaration parse_entity yields no entity for
OtherCursors ==
    { [kind |-> "CXCursor_FieldDecl", parsed |-> <<"m">>],
      [kind |-> "CXCursor_StaticAssert", parsed |-> <<>>] }

ChildCursors ==
    AccessCursors \cup BaseCursors \cup OtherCursors
        \cup { [kind |-> "CXCursor_CXXFinalAttr"] }
        \cup { [kind |-> k] : k \in SkippedKinds }

ValidAccess == {"CX_CXXPublic", "CX_CXXProtected", "CX_CXXPrivate"}

\* what a child cursor is to the class it is a child of
ChildClass(child) ==
    IF child.kind = "CXCursor_CXXAccessSpecifier"
    THEN (IF child.access \in ValidAccess THEN "access" ELSE "invalid_access")
    ELSE IF child.kind = "CXCursor_CXXBaseSpecifier"
    THEN (IF child.access \in ValidAccess THEN "base" ELSE "invalid_base")
    ELSE IF child.kind = "CXCursor_CXXFinalAttr" THEN "final"
    ELSE IF child.kind \in SkippedKinds THEN "skipped"
    ELSE IF child.parsed # <<>> THEN "member"
    ELSE "unparsed"

(***************************************************************************)
(* class_parser.cpp                                                        *)
(***************************************************************************)
\* DEBUG_UNREACHABLE either ends the parse or, compiled out, lets the
\* function return the value written after it.
Unreachable == "unreachable"

parse_class_kind(c) ==
    LET kind == IF c.template_kind # "CXCursor_NoDeclFound"
                THEN c.template_kind ELSE c.kind
    IN  CASE kind = "CXCursor_ClassDecl"  -> {"class_t"}
          [] kind = "CXCursor_StructDecl" -> {"struct_t"}
          [] kind = "CXCursor_UnionDecl"  -> {"union_t"}
          [] OTHER -> {Unreachable, "class_t"}

make_class_builder(c) ==
    { IF kind = Unreachable THEN <<>> ELSE << class_builder(c.name, kind) >> :
        kind \in parse_class_kind(c) }

convert_access(c) ==
    CASE c.access = "CX_CXXPublic"    -> {"cpp_public"}
      [] c.access = "CX_CXXProtected" -> {"cpp_protected"}
      [] c.access = "CX_CXXPrivate"   -> {"cpp_private"}
      [] OTHER -> {Unreachable, "cpp_public"}

\* to_string(cpp_access_specifier_kind): the keyword as spelled
access_to_string(access) ==
    CASE access = "cpp_public"    -> tPublic
      [] access = "cpp_protected" -> tProtected
      [] access = "cpp_private"   -> tPrivate

\* each result of a step on the builder: <<>> when the parse ended in a fault
add_access_specifier(b, c) ==
    { IF access = Unreachable THEN <<>> ELSE << access_specifier(b, access) >> :
        access \in convert_access(c) }

\* detail::skip: the next token must be str; where the check is compiled out
\* the token is consumed whatever it is
skip(stream, str) ==
    IF ~done(stream) /\ peek(stream) = str
    THEN { << bump(stream) >> }
    ELSE { <<>>, << bump(stream) >> }

\* an add_base_class that takes the access from the spelling, public where
\* none is spelled
add_base_class_spelled_access(b, c) ==
    { IF access = Unreachable \/ s = <<>> THEN <<>>
      ELSE << base_class(b,
                to_string(skip_if(s[1], access_to_string(access)).stream),
                c.type,
                IF skip_if(s[1], access_to_string(access)).ok
                THEN access ELSE "cpp_public",
                c.is_virtual) >> :
        access \in convert_access(c),
        s \in IF c.is_virtual
              THEN skip(skip_attribute(token_stream(c.tokens)), tVirtual)
              ELSE { << skip_attribute(token_stream(c.tokens)) >> } }

add_base_class(b, c) ==
    { IF access = Unreachable \/ s = <<>> THEN <<>>
      ELSE << base_class(b,
                to_string(skip_if(s[1], access_to_string(access)).stream),
                c.type, access, c.is_virtual) >> :
        access \in convert_access(c),
        s \in IF c.is_virtual
              THEN skip(skip_attribute(token_stream(c.tokens)), tVirtual)
              ELSE { << skip_attribute(token_stream(c.tokens)) >> } }

\* a callback that adds whatever parse_entity returned, an entity or none
visit_child_adds_unparsed(b, child) ==
    IF child.kind = "CXCursor_CXXAccessSpecifier" THEN add_access_specifier(b, child)
    ELSE IF child.kind = "CXCursor_CXXBaseSpecifier" THEN add_base_class(b, child)
    ELSE IF child.kind = "CXCursor_CXXFinalAttr" THEN { << is_final(b) >> }
    ELSE IF \/ child.kind = "CXCursor_TemplateTypeParameter"
            \/ child.kind = "CXCursor_NonTypeTemplateParameter"
            \/ child.kind = "CXCursor_TemplateTemplateParameter"
            \/ child.kind = "CXCursor_ParmDecl"
            \/ clang_isExpression(child.kind)
            \/ clang_isReference(child.kind)
            \/ child.kind = "CXCursor_UnexposedAttr"
    THEN { << b >> }
    ELSE { << add_child(b, child.parsed) >> }

\* a callback that passes base specifiers over
visit_child_without_bases(b, child) ==
    IF child.kind = "CXCursor_CXXAccessSpecifier" THEN add_access_specifier(b, child)
    ELSE IF child.kind = "CXCursor_CXXFinalAttr" THEN { << is_final(b) >> }
    ELSE IF child.kind \in {"CXCursor_FieldDecl"} /\ child.parsed # <<>>
    THEN { << add_child(b, child.parsed) >> }
    ELSE { << b >> }

\* the callback handed to visit_children
visit_child(b, child) ==
    IF child.kind = "CXCursor_CXXAccessSpecifier" THEN add_access_specifier(b, child)
    ELSE IF child.kind = "CXCursor_CXXBaseSpecifier" THEN add_base_class(b, child)
    ELSE IF child.kind = "CXCursor_CXXFinalAttr" THEN { << is_final(b) >> }
    ELSE IF \/ child.kind = "CXCursor_TemplateTypeParameter"
            \/ child.kind = "CXCursor_NonTypeTemplateParameter"
            \/ child.kind = "CXCursor_TemplateTemplateParameter"
            \/ child.kind = "CXCursor_ParmDecl"
            \/ clang_isExpression(child.kind)
            \/ clang_isReference(child.kind)
            \/ child.kind = "CXCursor_UnexposedAttr"
    THEN { << b >> }
    ELSE IF child.parsed # <<>> THEN { << add_child(b, child.parsed) >> }
    ELSE { << b >> }

is_templated(c) ==
    c.template_kind # "CXCursor_NoDeclFound" \/ c.specialized

\* built without CPPAST_CINDEX_HAS_FRIEND
is_friend_never(c) == FALSE

\* CPPAST_CINDEX_HAS_FRIEND; without it no cursor has a CXCursor_FriendDecl
\* parent and is_friend is FALSE as well
is_friend(c) == c.parent_kind = "CXCursor_FriendDecl"

\* a terminal operation chosen without looking at is_templated
finish_class_always_indexed(b, n, c, sp, index) ==
    IF ~is_friend(c) /\ c.is_definition
    THEN finish_idx(b, n, index, get_entity_id(c.usr), sp)
    ELSE finish_declaration_idx(b, n, index, get_entity_id(c.usr))

\* a terminal operation chosen without looking at is_friend
finish_class_friend_too(b, n, c, sp, index) ==
    IF c.is_definition
    THEN IF is_templated(c)
         THEN finish(b, n, index, get_entity_id(c.usr), sp)
         ELSE finish_idx(b, n, index, get_entity_id(c.usr), sp)
    ELSE IF is_templated(c)
         THEN finish_declaration(b, n, index, get_entity_id(c.usr))
         ELSE finish_declaration_idx(b, n, index, get_entity_id(c.usr))

\* a return statement that finishes a template as a definition only where a
\* semantic parent was found
finish_class_template_needs_scope(b, n, c, sp, index) ==
    IF ~is_friend(c) /\ c.is_definition /\ (is_templated(c) => sp # <<>>)
    THEN IF is_templated(c)
         THEN finish(b, n, index, get_entity_id(c.usr), sp)
         ELSE finish_idx(b, n, index, get_entity_id(c.usr), sp)
    ELSE IF is_templated(c)
         THEN finish_declaration(b, n, index, get_entity_id(c.usr))
         ELSE finish_declaration_idx(b, n, index, get_entity_id(c.usr))

\* a return statement that finishes every class as a definition
finish_class_as_definition(b, n, c, sp, index) ==
    IF is_templated(c)
    THEN finish(b, n, index, get_entity_id(c.usr), sp)
    ELSE finish_idx(b, n, index, get_entity_id(c.usr), sp)

\* a return statement that finishes the declaration and then the definition
finish_class_twice(b, n, c, sp, index) ==
    IF ~is_friend(c) /\ c.is_definition
    THEN finish_idx(finish_declaration(b, n, index, get_entity_id(c.usr)).builder,
                    n, index, get_entity_id(c.usr), sp)
    ELSE finish_declaration(b, n, index, get_entity_id(c.usr))

\* the return statement of parse_cpp_class
finish_class(b, n, c, sp, index) ==
    IF ~is_friend(c) /\ c.is_definition
    THEN IF is_templated(c)
         THEN finish(b, n, index, get_entity_id(c.usr), sp)
         ELSE finish_idx(b, n, index, get_entity_id(c.usr), sp)
    ELSE IF is_templated(c)
         THEN finish_declaration(b, n, index, get_entity_id(c.usr))
         ELSE finish_declaration_idx(b, n, index, get_entity_id(c.usr))

\* the cursor's facts kept while it is parsed
Facts(c) ==
    [usr |-> c.usr, kind |-> c.kind, template_kind |-> c.template_kind,
     specialized |-> c.specialized, name |-> c.name,
     parent_kind |-> c.parent_kind, sem |-> c.sem, lex |-> c.lex,
     is_definition |-> c.is_definition]

\* one program holds one definition per identity
OneDefinition(c) ==
    c.is_definition =>
        \A i \in 1..Len(finished) :
            ~(finished[i].id = get_entity_id(c.usr) /\ finished[i].cursor_is_definition)

\* parse_cpp_class up to visit_children: the builder and the scope scan
ParseBegin ==
    /\ pc = "idle"
    /\ budget.cursors > 0
    /\ \E c \in ClassCursors :
        /\ c.usr \in Usrs(c)
        \* identities are interchangeable: the first class finished is A
        /\ c.usr = "B" => finished # <<>>
        /\ OneDefinition(c)
        /\ cur' = << Facts(c) >>
        /\ \E b \in make_class_builder(c) :
            LET scanned == ~is_friend(c) /\ c.sem # c.lex
                r == out_of_line_scope(c)
            IN  /\ builder' = b
                /\ scan' = IF b # <<>> /\ scanned THEN << r >> ELSE <<>>
                /\ semantic_parent' =
                      IF b # <<>> /\ scanned THEN r.semantic_parent ELSE <<>>
                /\ pc' = IF b = <<>> THEN "fault"
                         ELSE IF scanned /\ ~r.found THEN "overrun"
                         ELSE "building"
    /\ budget' = [budget EXCEPT !.cursors = @ - 1]
    /\ UNCHANGED <<yielded, entity, idx, finished, genVars>>

\* visit_children yields one more child to the callback
VisitChild ==
    /\ pc = "building"
    /\ ~is_friend(cur[1])
    /\ Len(yielded) < budget.children
    /\ \E child \in ChildCursors : \E b \in visit_child(builder[1], child) :
        /\ builder' = IF b = <<>> THEN builder ELSE b
        /\ pc' = IF b = <<>> THEN "fault" ELSE "building"
        /\ yielded' = Append(yielded,
              [is |-> ChildClass(child),
               base |-> IF child.kind = "CXCursor_CXXBaseSpecifier"
                        THEN child.type ELSE "other"])
    /\ UNCHANGED <<cur, semantic_parent, scan, entity, idx, finished, budget, genVars>>

\* the traversal is over: the terminal operation
Finish ==
    /\ pc = "building"
    /\ LET r == finish_class(builder[1], Len(finished) + 1, cur[1],
                             semantic_parent, idx)
       IN  /\ entity' = << r.entity >>
           /\ idx' = r.idx
           /\ builder' = << r.builder >>
           /\ finished' = Append(finished,
                [n |-> r.entity.n, id |-> r.entity.id,
                 is_definition |-> r.entity.is_definition,
                 is_template |-> IsTemplateCursor(cur[1]),
                 cursor_is_definition |-> cur[1].is_definition])
    /\ pc' = "done"
    /\ UNCHANGED <<cur, semantic_parent, scan, yielded, budget, genVars>>

\* parse_cpp_class has returned: the entity goes to the caller, the locals go
\* out of scope
Return ==
    /\ pc = "done"
    /\ pc' = "idle"
    /\ cur' = <<>>
    /\ builder' = <<>>
    /\ semantic_parent' = <<>>
    /\ scan' = <<>>
    /\ yielded' = <<>>
    /\ entity' = <<>>
    /\ UNCHANGED <<idx, finished, budget, genVars>>

ParseInit(cursors, children, ops) ==
    /\ pc = "idle"
    /\ cur = <<>>
    /\ builder = <<>>
    /\ semantic_parent = <<>>
    /\ scan = <<>>
    /\ yielded = <<>>
    /\ entity = <<>>
    /\ idx = [id \in Ids |-> 0]
    /\ finished = <<>>
    /\ budget = [cursors |-> cursors, children |-> children, ops |-> ops]

\* the token streams and names the scope scan is run on by itself
ScanAlphabet == {tA, tB, tFoo, tScope, tLParen, tInt}

ScanExample1 == <<tA, tScope, tB, tScope, tFoo, tLParen, tInt, tRParen>>

ScanExample2 == <<tFoo, tLParen, tInt, tRParen>>

ScanStreams ==
    UNION { [1..k -> ScanAlphabet] : k \in 0..MaxTokens }
        \cup {ScanExample1, ScanExample2}

ScanInit ==
    /\ GenIdle
    /\ pc = "scan"
    /\ cur \in { << [name |-> n, tokens |-> t, sem |-> "N", lex |-> "TU"] >> :
                    n \in {tFoo, tFoo \o tLess \o tInt \o tGreater},
                    t \in ScanStreams }
    /\ builder = <<>>
    /\ semantic_parent = <<>>
    /\ scan = <<>>
    /\ yielded = <<>>
    /\ entity = <<>>
    /\ idx = [id \in Ids |-> 0]
    /\ finished = <<>>
    /\ budget = [cursors |-> 0, children |-> 0, ops |-> 0]

\* the out-of-line branch of parse_cpp_class on one declarator
ScopeScan ==
    /\ pc = "scan"
    /\ scan' = << out_of_line_scope(cur[1]) >>
    /\ semantic_parent' = out_of_line_scope(cur[1]).semantic_parent
    /\ pc' = IF out_of_line_scope(cur[1]).found THEN "scanned" ELSE "overrun"
    /\ UNCHANGED <<cur, builder, yielded, entity, idx, finished, budget, genVars>>

ParseNext == ParseBegin \/ VisitChild \/ Finish \/ Return

(***************************************************************************)
(* add_base_class on the base specifiers of the language                   *)
(***************************************************************************)
AttributeTokens == <<tLBracket, tLBracket, tDeprecated, tRBracket, tRBracket>>

\* the names of a base: plain, qualified, a template specialization
BaseNames == { <<tB>>, <<tA, tScope, tB>>, <<tB, tLess, tInt, tGreater>> }

\* how a base specifier is spelled: with or without an attribute, virtual
\* before or after the access keyword or absent, an access keyword or none
BaseForms ==
    { [attr |-> a, virtual |-> v, access |-> x, name |-> n] :
        a \in BOOLEAN, v \in {"none", "first", "second"},
        x \in {"none", "cpp_public", "cpp_protected", "cpp_private"},
        n \in BaseNames }

\* the keywords of a base specifier, in the order they are spelled
SpelledKeywords(f) ==
    LET acc == IF f.access = "none" THEN <<>> ELSE << access_to_string(f.access) >>
    IN  CASE f.virtual = "none"   -> acc
          [] f.virtual = "first"  -> << tVirtual >> \o acc
          [] f.virtual = "second" -> acc \o << tVirtual >>

\* the access of a base that spells none: private for a class, public for a
\* struct or union
DefaultBaseAccess(k) ==
    IF (IF k.template_kind # "CXCursor_NoDeclFound" THEN k.template_kind ELSE k.kind)
          = "CXCursor_ClassDecl"
    THEN "cpp_private" ELSE "cpp_public"

\* clang_getCXXAccessSpecifier
CXAccess(access) ==
    CASE access = "cpp_public"    -> "CX_CXXPublic"
      [] access = "cpp_protected" -> "CX_CXXProtected"
      [] access = "cpp_private"   -> "CX_CXXPrivate"

\* the base specifier cursor of a class cursor k spelled as f
BaseSpecifier(k, f) ==
    [kind |-> "CXCursor_CXXBaseSpecifier",
     access |-> CXAccess(IF f.access = "none" THEN DefaultBaseAccess(k) ELSE f.access),
     is_virtual |-> f.virtual # "none",
     tokens |-> (IF f.attr THEN AttributeTokens ELSE <<>>)
                    \o SpelledKeywords(f) \o f.name,
     type |-> Concat(f.name)]

BaseInit ==
    /\ GenIdle
    /\ pc = "base"
    /\ \E k \in CursorKinds : \E f \in BaseForms :
          /\ Unreachable \notin parse_class_kind(k)
          /\ f.virtual = "second" => f.access # "none"
          /\ cur = << [kind |-> k.kind, template_kind |-> k.template_kind,
                       form |-> f, base |-> BaseSpecifier(k, f)] >>
          /\ builder \in make_class_builder(k)
    /\ semantic_parent = <<>>
    /\ scan = <<>>
    /\ yielded = <<>>
    /\ entity = <<>>
    /\ idx = [id \in Ids |-> 0]
    /\ finished = <<>>
    /\ budget = [cursors |-> 0, children |-> 0, ops |-> 0]

\* the callback is handed a base specifier of a class without bases so far
AddBaseClass ==
    /\ pc = "base"
    /\ \E b \in add_base_class(builder[1], cur[1].base) :
          /\ builder' = IF b = <<>> THEN builder ELSE b
          /\ pc' = IF b = <<>> THEN "fault" ELSE "based"
    /\ yielded' = << [is |-> ChildClass(cur[1].base), base |-> cur[1].base.type] >>
    /\ UNCHANGED <<cur, semantic_parent, scan, entity, idx, finished, budget, genVars>>

SpecBase == BaseInit /\ [][AddBaseClass]_vars

\* The backends: the minimal one and one that overrides every write member.
Backends == { {}, WriteMembers }

GenInit ==
    /\ stack = <<>>
    /\ calls = <<>>
    /\ out = <<>>
    /\ issued = <<>>
    /\ visited = {}
    /\ overridden \in Backends
    /\ bk = [level |-> 0, pending |-> 0, fresh |-> TRUE]
    /\ laid = <<>>
    /\ ParseInit(0, 0, MaxOps)

GenNext ==
    \/ GenerateCode
    \/ RenderChild
    \/ TrailingNewline
    \/ Destroy
    \/ Indent
    \/ Unindent
    \/ WriteKeyword
    \/ WriteIdentifier
    \/ WriteReference
    \/ WritePunctuation
    \/ WriteStringLiteral
    \/ WriteIntLiteral
    \/ WriteFloatLiteral
    \/ WritePreprocessor
    \/ WriteTokenSeq
    \/ WriteNewline
    \/ WriteWhitespace

SpecGen == GenInit /\ [][GenNext]_vars

\* a render pass that writes raw token sequences, newlines and indentation only
LayoutInit ==
    /\ stack = <<>>
    /\ calls = <<>>
    /\ out = <<>>
    /\ issued = <<>>
    /\ visited = {}
    /\ overridden \in Backends
    /\ bk = [level |-> 0, pending |-> 0, fresh |-> TRUE]
    /\ laid = <<>>
    /\ ParseInit(0, 0, MaxLayoutOps)

LayoutNext ==
    \/ GenerateCode
    \/ RenderChild
    \/ TrailingNewline
    \/ Destroy
    \/ Indent
    \/ Unindent
    \/ WriteTokenSeq
    \/ WriteNewline

SpecLayout == LayoutInit /\ [][LayoutNext]_vars

\* one class cursor with up to MaxChildren children
ClassInit == GenIdle /\ ParseInit(1, MaxChildren, 0)

SpecClass == ClassInit /\ [][ParseNext]_vars

\* the scope scan on every declarator of up to MaxTokens tokens
SpecScan == ScanInit /\ [][ScopeScan]_vars

\* a build pass over up to MaxCursors class cursors
PassInit == GenIdle /\ ParseInit(MaxCursors, MaxSeqChildren, 0)

SpecParse == PassInit /\ [][ParseNext]_vars

(***************************************************************************)
(* Properties of the render pass                                           *)
(***************************************************************************)
IsDispatch(c) == c.fn \in {"on_container_begin", "on_leaf"}

\* what the dispatch callback returned for e ("none" before it was called)
Result(e) ==
    LET at == {i \in 1..Len(calls) : IsDispatch(calls[i]) /\ calls[i].e = e}
    IN  IF at = {} THEN "none" ELSE calls[CHOOSE i \in at : TRUE].ret

OnStack(e) == \E i \in 1..Len(stack) : stack[i].ent = e

\* the output constructed for e has been destroyed
Destroyed(e) == e \in visited /\ ~OnStack(e)

Parent(c) == CHOOSE p \in Entities : IsChild(c, p)

EndsOf(e) == {i \in 1..Len(calls) : calls[i].fn = "on_container_end" /\ calls[i].e = e}

\* the operations requested of a sentinel that was not excluded
Reaching == SelectSeq(issued, LAMBDA r : Result(r.via) # "exclude")

\* the member the sentinel calls first for an operation
PrimaryFn(name) ==
    CASE name = "keyword"            -> "do_write_keyword"
      [] name = "identifier"         -> "do_write_identifier"
      [] name = "reference"          -> "do_write_reference"
      [] name = "punctuation"        -> "do_write_punctuation"
      [] name = "string_literal"     -> "do_write_str_literal"
      [] name = "int_literal"        -> "do_write_int_literal"
      [] name = "float_literal"      -> "do_write_float_literal"
      [] name = "preprocessor_token" -> "do_write_preprocessor"
      [] name = "token_seq"          -> "do_write_token_seq"
      [] name = "newl"               -> "do_write_newline"
      [] name = "trailing_newl"      -> "do_write_newline"
      [] name = "whitespace"         -> "do_write_whitespace"
      [] name = "indent"             -> "do_indent"
      [] name = "indent_newline"     -> "do_indent"
      [] name = "unindent"           -> "do_unindent"

\* C1: when on_container_begin returns exclude for an entity, the only call the
\* backend ever receives for that entity or for any entity below it is that
\* on_container_begin itself: no write, indent or unindent call, no dispatch
\* callback of a child, and no on_container_end.
C1_ExcludeSilences ==
    \A e \in Entities :
        (IsContainer(e) /\ Result(e) = "exclude") =>
            \A i \in 1..Len(calls) :
                (calls[i].e = e \/ IsDescendant(calls[i].e, e)) =>
                    (calls[i].fn = "on_container_begin" /\ calls[i].e = e)

\* an excluded container through whose output an operation was requested and
\* whose output has been destroyed
C1_Witness ==
    \E e \in Entities :
        /\ IsContainer(e) /\ Result(e) = "exclude" /\ Destroyed(e)
        /\ \E i \in 1..Len(issued) : issued[i].via = e

\* C2: once the output of a container that was not excluded is destroyed,
\* on_container_end was called for it exactly once, after its
\* on_container_begin and after every call made for it or for an entity below
\* it; while the output lives there is no on_container_end yet; a leaf is
\* dispatched with on_leaf, never on_container_begin, and gets no
\* on_container_end.
C2_ContainerEndOnce ==
    \A e \in visited :
        /\ OnStack(e) => EndsOf(e) = {}
        /\ (Destroyed(e) /\ IsContainer(e) /\ Result(e) # "exclude") =>
              /\ Cardinality(EndsOf(e)) = 1
              /\ \A j \in EndsOf(e) : \A i \in 1..Len(calls) :
                    (i # j /\ (calls[i].e = e \/ IsDescendant(calls[i].e, e))) => i < j
              /\ \E i \in 1..Len(calls) :
                    calls[i].fn = "on_container_begin" /\ calls[i].e = e
        /\ ~IsContainer(e) =>
              /\ EndsOf(e) = {}
              /\ \A i \in 1..Len(calls) :
                    (IsDispatch(calls[i]) /\ calls[i].e = e) => calls[i].fn = "on_leaf"

\* a destroyed container rendered as a definition whose leaf child was
\* rendered, not excluded, written through and destroyed
C2_Witness ==
    /\ Destroyed("E2") /\ Result("E2") = "definition"
    /\ Destroyed("E3") /\ Result("E3") # "exclude"
    /\ \E i \in 1..Len(issued) : issued[i].via = "E3"

\* C3: no entity below a container whose on_container_begin returned
\* declaration causes any call (a child is dispatched only under a parent
\* that returned definition), while every operation requested of the output
\* of an entity that returned declaration or definition reaches the backend
\* as the matching member call.
C3_DeclarationSuppressesChildren ==
    /\ \A e \in Entities :
          (IsContainer(e) /\ Result(e) = "declaration") =>
              \A i \in 1..Len(calls) : ~IsDescendant(calls[i].e, e)
    /\ \A i \in 1..Len(calls) :
          (IsDispatch(calls[i]) /\ calls[i].e # Root) =>
              Result(Parent(calls[i].e)) = "definition"
    /\ \A n \in 1..Len(issued) :
          Result(issued[n].via) \in {"declaration", "definition"} =>
              \E i \in 1..Len(calls) :
                  /\ calls[i].op = n
                  /\ calls[i].e = issued[n].via
                  /\ calls[i].from = "output"
                  /\ calls[i].fn = PrimaryFn(issued[n].op)

\* a definition parent and its declaration child, each written through, the
\* child destroyed without its own child ever being dispatched
C3_Witness ==
    /\ Result("E1") = "definition" /\ Result("E2") = "declaration"
    /\ Destroyed("E2")
    /\ \E i \in 1..Len(issued) : issued[i].via = "E1"
    /\ \E i \in 1..Len(issued) : issued[i].via = "E2"

(***************************************************************************)
(* Properties of the class parser                                          *)
(***************************************************************************)
\* C4: every entity finished as a definition is what the index holds under
\* its identity exactly if it is not a template, and the index holds no entry
\* under the identity of a template entity, whichever terminal operation
\* finished it.
C4_IndexHoldsNonTemplateDefinitions ==
    \A i \in 1..Len(finished) :
        /\ finished[i].is_definition =>
              ((idx[finished[i].id] = finished[i].n) <=> ~finished[i].is_template)
        /\ finished[i].is_template => idx[finished[i].id] = 0

\* a template and a class have both been finished as definitions
C4_Witness ==
    /\ \E i \in 1..Len(finished) :
          finished[i].is_definition /\ finished[i].is_template
    /\ \E i \in 1..Len(finished) :
          finished[i].is_definition /\ ~finished[i].is_template

\* C5: parse_cpp_class ends with finish exactly when the cursor is a
\* definition and its parent is not a friend declaration; otherwise it ends
\* with finish_declaration and the entity is no definition.
C5_TerminalOperation ==
    pc = "done" =>
        LET friend == cur[1].parent_kind = "CXCursor_FriendDecl"
        IN  /\ (entity[1].terminal = "finish") <=> (cur[1].is_definition /\ ~friend)
            /\ (~cur[1].is_definition \/ friend) =>
                  /\ entity[1].terminal = "finish_declaration"
                  /\ ~entity[1].is_definition

\* a friend cursor that is a definition has been finished
C5_Witness ==
    /\ pc = "done"
    /\ cur[1].is_definition
    /\ cur[1].parent_kind = "CXCursor_FriendDecl"

\* the first position of the target among the tokens, 0 if it is absent
FirstAt(tokens, target) == find(tokens, target)

\* whether a scope segment starts before position p
SegmentBefore(tokens, p) ==
    \E i \in 1..(p - 1) :
        i + 1 <= Len(tokens) /\ IsIdentifier(tokens[i]) /\ tokens[i + 1] = tScope

\* C6: the scan stops at the first token that is exactly the target name,
\* having consumed it; it yields a reference exactly when the scope string is
\* not empty, which takes a scope segment before the name; the tokens
\* A :: B :: Foo ( int ) yield the scope string "A::B" and the tokens
\* Foo ( int ) yield no reference.
C6_ScopeResolution ==
    pc \in {"scanned", "overrun"} =>
        LET tokens == cur[1].tokens
            target == StrippedName(cur[1].name)
            r == scan[1]
        IN  /\ r.found <=> FirstAt(tokens, target) # 0
            /\ r.found => r.pos = FirstAt(tokens, target) + 1
            /\ (semantic_parent # <<>>) <=> (r.found /\ r.scope # <<>>)
            /\ (r.found /\ ~SegmentBefore(tokens, FirstAt(tokens, target))) =>
                  semantic_parent = <<>>
            /\ tokens = ScanExample1 =>
                  /\ r.scope = tA \o tScope \o tB
                  /\ semantic_parent =
                        << [id |-> get_entity_id("N"), name |-> tA \o tScope \o tB] >>
            /\ tokens = ScanExample2 => semantic_parent = <<>>

\* the scan has run on A :: B :: Foo ( int ) for the name Foo<int>
C6_Witness ==
    /\ pc = "scanned"
    /\ cur[1].tokens = ScanExample1
    /\ cur[1].name # tFoo
    /\ semantic_parent # <<>>

\* C7: for a cursor whose parent is a friend declaration the scope scan is
\* not run and neither the parse nor the finished entity holds a
\* semantic-parent reference, whatever the tokens and the parents are.
C7_FriendHasNoSemanticParent ==
    (cur # <<>> /\ cur[1].parent_kind = "CXCursor_FriendDecl") =>
        /\ scan = <<>>
        /\ semantic_parent = <<>>
        /\ pc # "overrun"
        /\ entity # <<>> => entity[1].semantic_parent = <<>>

\* a friend cursor whose lexical and semantic parents differ has been finished
C7_Witness ==
    /\ pc = "done"
    /\ cur[1].parent_kind = "CXCursor_FriendDecl"
    /\ cur[1].sem # cur[1].lex

BaseTypes(bases) == [i \in 1..Len(bases) |-> bases[i].type]

\* the types of the base specifiers that were yielded, in order
YieldedBases ==
    SelectSeq([i \in 1..Len(yielded) |-> yielded[i].base], LAMBDA t : t # "other")

\* C8: the base classes of the builder, and of the finished class, are the
\* base specifiers visit_children yielded, one entry each, in the order they
\* were yielded, whatever was yielded between them.
C8_BaseClassOrder ==
    /\ pc = "building" =>
          BaseTypes(builder[1].bases) = YieldedBases
    /\ pc = "done" =>
          BaseTypes(entity[1].bases) = YieldedBases

\* a class finished after two different base specifiers with another child
\* between them
C8_Witness ==
    /\ pc = "done"
    /\ Len(yielded) = 3
    /\ yielded[1].base # "other" /\ yielded[2].base = "other"
    /\ yielded[3].base \notin {"other", yielded[1].base}

NewlinesIn(t) == Cardinality({i \in 1..Len(t) : t[i] = "\n"})

NewlineCalls == {i \in 1..Len(calls) : calls[i].fn = "do_write_newline"}

\* C9 as stated: no call of do_write_token_seq or of a do_write_* member other
\* than do_write_newline delivers text that holds a newline.
C9_NoNewlineText ==
    \A i \in 1..Len(calls) :
        calls[i].fn # "do_write_newline" => ~HasNewline(calls[i].text)

\* C9, amended: a newline reaches the backend's output only through
\* do_write_newline: the output holds as many newlines as do_write_newline was
\* called, and the only call other than do_write_newline that delivers text
\* with a newline is the do_write_token_seq("\n") by which the base class
\* do_write_newline forwards (never when the backend overrides it).
C9_NewlineOnlyThroughDoWriteNewline ==
    /\ NewlinesIn(out) = Cardinality(NewlineCalls)
    /\ \A i \in 1..Len(calls) :
          (calls[i].fn # "do_write_newline" /\ HasNewline(calls[i].text)) =>
              /\ calls[i].fn = "do_write_token_seq"
              /\ calls[i].from = "do_write_newline"
              /\ calls[i].text = NL
              /\ "do_write_newline" \notin overridden

\* a newline and a whitespace were written to the minimal backend
C9_Witness ==
    /\ overridden = {}
    /\ \E i \in 1..Len(calls) : calls[i].fn = "do_write_newline"
    /\ \E i \in 1..Len(calls) : calls[i].fn = "do_write_whitespace"

TokenSeqCalls == SelectSeq(calls, LAMBDA c : c.fn = "do_write_token_seq")

\* the text an operation writes; indent writes a newline when print_newline
WrittenText(r) == IF r.op = "indent_newline" THEN NL ELSE r.text

WrittenTexts == [i \in 1..Len(Reaching) |-> WrittenText(Reaching[i])]

\* C10: for the backend that overrides no do_write_* member but
\* do_write_token_seq, every write of a token class requested of an output
\* that is not excluded causes exactly one do_write_token_seq call, carrying
\* the written text (the display name of a reference, "\n" for newline, " "
\* for whitespace); the calls come in the order of the writes, and the
\* backend's output is the concatenation of the written texts (the newline of
\* indent(print_newline = true) counted as the newline write it is).
C10_MinimalBackendGetsEveryText ==
    overridden = {} =>
        /\ \A n \in 1..Len(issued) :
              (Result(issued[n].via) # "exclude"
                    /\ issued[n].op \notin {"indent", "indent_newline", "unindent"}) =>
                  /\ Cardinality({i \in 1..Len(calls) :
                        calls[i].fn = "do_write_token_seq" /\ calls[i].op = n}) = 1
                  /\ \A i \in 1..Len(calls) :
                        (calls[i].fn = "do_write_token_seq" /\ calls[i].op = n) =>
                            calls[i].text = issued[n].text
        /\ \A i, j \in 1..Len(TokenSeqCalls) :
              i < j => TokenSeqCalls[i].op < TokenSeqCalls[j].op
        /\ [i \in 1..Len(TokenSeqCalls) |-> TokenSeqCalls[i].text] = SelectSeq(WrittenTexts, LAMBDA t : t # <<>>)
        /\ out = Concat(WrittenTexts)

\* a reference and then another token written to the minimal backend
C10_Witness ==
    /\ overridden = {}
    /\ Len(Reaching) = 2
    /\ Reaching[1].op = "reference"
    /\ Reaching[2].op \notin {"reference", "indent", "indent_newline", "unindent"}

Terminals == {"finish", "finish_declaration"}

TerminalCalls(b) == {i \in 1..Len(b.ops) : b.ops[i] \in Terminals}

\* C13: while the children of a class cursor are visited no terminal
\* operation has been called on its builder and the return statement can be
\* taken; when parse_cpp_class has returned, exactly one terminal operation
\* was called on the builder and it is the last call made on it, so no
\* add_child, base_class, access_specifier or is_final follows it; a parse
\* that ended in a fault called none.
C13_OneTerminalOperationLast ==
    /\ pc = "building" => (TerminalCalls(builder[1]) = {} /\ ENABLED Finish)
    /\ pc = "done" =>
          /\ Cardinality(TerminalCalls(builder[1])) = 1
          /\ TerminalCalls(builder[1]) = {Len(builder[1].ops)}
          /\ builder[1].ops[Len(builder[1].ops)] = entity[1].terminal
    /\ (pc = "fault" /\ builder # <<>>) => TerminalCalls(builder[1]) = {}

\* a class finished after an access specifier, a base class and a member
C13_Witness ==
    /\ pc = "done"
    /\ builder[1].ops = <<"access_specifier", "base_class", "add_child", "finish">>

\* a class cursor that is no class, struct or union (nor a template of one)
InvalidClassKind(c) ==
    (IF c.template_kind # "CXCursor_NoDeclFound" THEN c.template_kind ELSE c.kind)
        \notin {"CXCursor_ClassDecl", "CXCursor_StructDecl", "CXCursor_UnionDecl"}

\* C14: a class cursor whose kind is none of class, struct and union ends the
\* parse in a fault before a builder exists, and an access-specifier or
\* base-specifier child whose access is none of public, protected and private
\* ends it in a fault as the last child visited; no entity is produced, and
\* the parse never goes on with a substituted class kind or access.
C14_ContractViolationFaults ==
    /\ (cur # <<>> /\ InvalidClassKind(cur[1])) =>
          (pc = "fault" /\ builder = <<>> /\ entity = <<>>)
    /\ \A i \in 1..Len(yielded) :
          yielded[i].is \in {"invalid_access", "invalid_base"} =>
              (pc = "fault" /\ i = Len(yielded) /\ entity = <<>>)

C16_TemplateWithoutScopeIsDeclaration ==
    (pc = "done" /\ is_templated(cur[1]) /\ semantic_parent = <<>>) =>
        (entity[1].terminal = "finish_declaration" /\ ~entity[1].is_definition)

\* C16, amended: a templated class cursor is finished by the rule of every
\* class cursor, with finish exactly when it is a definition and no friend,
\* whether or not a semantic-parent reference was found, and then the entity
\* is a definition that keeps its children; being templated only keeps the
\* entity out of the index.
C16_TemplateFinishedByDefinitionAndFriend ==
    (pc = "done" /\ is_templated(cur[1])) =>
        /\ (entity[1].terminal = "finish") <=>
              (cur[1].is_definition /\ cur[1].parent_kind # "CXCursor_FriendDecl")
        /\ entity[1].terminal = "finish" =>
              /\ entity[1].is_definition
              /\ entity[1].children = builder[1].children
              /\ entity[1].semantic_parent = semantic_parent
        /\ idx[entity[1].id] = 0

\* a class template that is a definition, is no friend and has no
\* semantic-parent reference has been finished with a member
C16_Witness ==
    /\ pc = "done"
    /\ cur[1].kind = "CXCursor_ClassTemplate"
    /\ cur[1].is_definition
    /\ cur[1].parent_kind # "CXCursor_FriendDecl"
    /\ semantic_parent = <<>>
    /\ entity[1].is_definition
    /\ entity[1].children # <<>>

\* whether sub occurs in str
Contains(str, sub) ==
    \E i \in 1..(Len(str) + 1 - Len(sub)) : SubSeq(str, i, i + Len(sub) - 1) = sub

\* C17: for a base specifier, spelled with or without an attribute, the
\* virtual keyword and an access keyword, the name add_base_class records is
\* the concatenation of the tokens of the base's name: it holds neither the
\* attribute nor the virtual keyword nor the access keyword; is_virtual and
\* access are the values of the provider's queries.
C17_BaseNameIsTheRemainingTokens ==
    pc = "based" =>
        LET f   == cur[1].form
            rec == builder[1].bases[1]
        IN  /\ rec.name = Concat(f.name)
            /\ ~Contains(rec.name, tVirtual)
            /\ ~Contains(rec.name, tDeprecated)
            /\ \A a \in {"cpp_public", "cpp_protected", "cpp_private"} :
                  ~Contains(rec.name, access_to_string(a))
            /\ rec.is_virtual = cur[1].base.is_virtual
            /\ CXAccess(rec.access) = cur[1].base.access

C19_SemanticParentReference ==
    (pc = "done" /\ entity[1].semantic_parent # <<>>) =>
        LET ref == entity[1].semantic_parent[1]
        IN  /\ cur[1].sem # cur[1].lex
            /\ ref.id = get_entity_id(cur[1].sem)
            /\ ref.id # entity[1].id
            /\ ref.name # <<>>
            /\ scan # <<>> /\ ref.name = scan[1].scope

\* an out-of-line definition with the declarator class A :: B :: Foo { has
\* been finished with a reference named A::B
C19_Witness ==
    /\ pc = "done"
    /\ entity[1].semantic_parent # <<>>
    /\ entity[1].semantic_parent[1].name = tA \o tScope \o tB
    /\ entity[1].is_definition

\* the member function the callback calls on the builder for a child
OpOf(y) ==
    CASE y.is \in {"access", "invalid_access"} -> "access_specifier"
      [] y.is \in {"base", "invalid_base"}     -> "base_class"
      [] y.is = "final"                        -> "is_final"
      [] y.is = "member"                       -> "add_child"

\* the children that are neither skipped nor without an entity
Effective == SelectSeq(yielded, LAMBDA y : y.is \notin {"skipped", "unparsed"})

EffectiveOps == [i \in 1..Len(Effective) |-> OpOf(Effective[i])]

CountOf(class) == Cardinality({i \in 1..Len(yielded) : yielded[i].is = class})

\* C20: the calls made on the builder during the traversal are, in the
\* order of the traversal, one call for each child that is an access
\* specifier, a base specifier, a final attribute or a child parse_entity
\* yields an entity for; a template parameter, a parameter declaration, an
\* expression, a reference, an unexposed attribute, and a child parse_entity
\* yields no entity for, cause no call and leave children, bases, access and
\* final as they are; no such child ends the parse in a fault.
C20_SkippedChildrenLeaveBuilderUnchanged ==
    /\ pc = "building" =>
          /\ builder[1].ops = EffectiveOps
          /\ Len(builder[1].children) = CountOf("member")
          /\ builder[1].final <=> CountOf("final") > 0
    /\ pc = "done" =>
          builder[1].ops = EffectiveOps \o << entity[1].terminal >>
    /\ (pc = "fault" /\ yielded # <<>>) =>
          yielded[Len(yielded)].is \notin {"skipped", "unparsed"}

\* a class finished after a skipped child, a member and a child without an
\* entity
C20_Witness ==
    /\ pc = "done"
    /\ Len(yielded) = 3
    /\ yielded[1].is = "skipped" /\ yielded[2].is = "member"
    /\ yielded[3].is = "unparsed"
    /\ builder[1].ops = <<"add_child", entity[1].terminal>>

(***************************************************************************)
(* Properties of the indentation of a conforming backend                   *)
(***************************************************************************)
\* the level requested through the outputs by the first n operations
RECURSIVE NetAfter(_)
NetAfter(n) ==
    IF n = 0 THEN 0
    ELSE IF Result(issued[n].via) = "exclude" THEN NetAfter(n - 1)
    ELSE IF issued[n].op \in {"indent", "indent_newline"} THEN NetAfter(n - 1) + 1
    ELSE IF issued[n].op = "unindent" THEN Dec(NetAfter(n - 1))
    ELSE NetAfter(n - 1)

\* the level of the current line before the i-th thing the backend did
LevelBefore(i) == IF i = 1 THEN 0 ELSE laid[i - 1].level

\* nothing was written on the current line before the i-th thing
FreshAt(i) ==
    \A k \in 1..(i - 1) :
        laid[k].kind = "text" => \E j \in (k + 1)..(i - 1) : laid[j].kind = "newline"

\* C11: driven through output::indent and output::unindent, a backend that
\* keeps the documented contract never changes the level of the current line
\* at a do_indent, writes every text at the level the line has, and raises the
\* level at a newline write only, where the level becomes the one requested
\* so far (the newline of indent(true) included); a do_unindent that comes
\* while nothing is written on the current line lowers the line's level to
\* the requested one at once, before the next token, and one that comes later
\* leaves the line alone and shows at the next newline.
C11_IndentationOrdering ==
    \A i \in 1..Len(laid) :
        /\ laid[i].kind \in {"indent", "text"} => laid[i].level = LevelBefore(i)
        /\ laid[i].level > LevelBefore(i) => laid[i].kind = "newline"
        /\ laid[i].kind = "newline" => laid[i].level = NetAfter(laid[i].op)
        /\ laid[i].kind = "unindent" =>
              laid[i].level = IF FreshAt(i)
                              THEN Min(LevelBefore(i), NetAfter(laid[i].op))
                              ELSE LevelBefore(i)

\* indent(true), a token, then an unindent on the line that holds the token:
\* the token and the rest of its line stay at the raised level
C11_Witness ==
    /\ Len(laid) = 4
    /\ laid[1].kind = "indent" /\ laid[2].kind = "newline" /\ laid[2].level = 1
    /\ laid[3].kind = "text" /\ laid[3].level = 1
    /\ laid[4].kind = "unindent" /\ laid[4].level = 1 /\ bk.pending = 0

(***************************************************************************)
(* Properties of the whole-tree driver                                     *)
(***************************************************************************)
TrailingOps == {n \in 1..Len(issued) : issued[n].op = "trailing_newl"}

\* C12: once generate_code has rendered a top-level entity that was not
\* excluded, it has written one trailing newline through the entity's output:
\* the last operation requested, causing exactly one do_write_newline call,
\* after which the backend receives nothing but what that call forwards and
\* the on_container_end of the entity; this is so for every synopsis option
\* of the entities, every backend and whatever was written before.
C12_OneTrailingNewline ==
    (Destroyed(Root) /\ Result(Root) # "exclude") =>
        /\ Cardinality(TrailingOps) = 1
        /\ \A n \in TrailingOps :
              /\ n = Len(issued)
              /\ issued[n].via = Root
              /\ Cardinality({i \in 1..Len(calls) :
                    calls[i].fn = "do_write_newline" /\ calls[i].op = n}) = 1
              /\ \A i, j \in 1..Len(calls) :
                    (calls[i].op = n /\ i < j) =>
                        \/ calls[j].op = n /\ calls[j].from = "do_write_newline"
                        \/ calls[j].fn = "on_container_end" /\ calls[j].e = Root

\* a top-level entity rendered as a definition, with its child rendered and a
\* newline written inside, has been finished
C12_Witness ==
    /\ Destroyed(Root) /\ Result(Root) = "definition"
    /\ Destroyed("E2") /\ Result("E2") # "exclude"
    /\ \E i \in 1..Len(issued) : issued[i].op = "newl" /\ issued[i].via = "E2"

(***************************************************************************)
(* Properties of the scope scan on streams without the name                *)
(***************************************************************************)
\* C21: on every declarator the scope scan ends with the stripped name
\* matched at a token of the stream, whether or not a token of the stream is
\* the name: it never comes to the end of the stream with its loop still
\* running, where the next skip_if would read, and the next bump advance,
\* past the last token.
C21_ScanEndsInsideTheStream ==
    /\ pc # "overrun"
    /\ pc = "scanned" =>
          /\ scan[1].found
          /\ scan[1].pos <= Len(cur[1].tokens) + 1

(***************************************************************************)
(* Properties of add_base_class on either order of the keywords            *)
(***************************************************************************)
\* C22: for every base specifier of the language, with virtual and the
\* access keyword each spelled or not and in either order, add_base_class
\* ends without a fault, having added one base class whose recorded name
\* holds neither the virtual keyword nor the access keyword that was spelled.
C22_EitherKeywordOrderIsParsed ==
    /\ pc # "fault"
    /\ pc = "based" =>
          /\ Len(builder[1].bases) = 1
          /\ ~Contains(builder[1].bases[1].name, tVirtual)
          /\ cur[1].form.access # "none" =>
                ~Contains(builder[1].bases[1].name,
                          access_to_string(cur[1].form.access))

====
